---- MODULE Spec2Model ----
(***************************************************************************)
(* Learning-platform analytics: the student dashboard, the instructor      *)
(* dashboard and the submission handlers of src/app.py, with the grading   *)
(* service of src/services/ai_service.py and the quiz persistence of       *)
(* src/services/quiz_service.py.                                           *)
(*                                                                         *)
(* Conventions.  A calendar date is its proleptic ordinal (Python's        *)
(* date.toordinal()), so "minus one day" is -1 and Monday is the ordinal   *)
(* that is 1 modulo 7.  A stored score is an integer; Python's None is     *)
(* NoneVal.  Every value produced by round(x, 1) is kept in tenths         *)
(* (70.0 is 700), every other number in units.                             *)
(***************************************************************************)
EXTENDS Integers, Sequences, FiniteSets, TLC

\* Python's None in a nullable numeric column.
NoneVal == -1

(***************************************************************************)
(* Bounds of the model.                                                    *)
(***************************************************************************)
\* submissions kept in the database at most
MaxSubs == 2

\* the first day: a Sunday (ordinal 7 is 0001-01-07), so the week turns
FirstDay == 7

\* the days the clock shows
Days == FirstDay..(FirstDay + 2)

\* quiz attempts kept in the database at most
QuizSlots == {1}

Students == {1}

\* scores the grading service answers with
Scores == {70}

\* right answers of the quizzes taken
CorrectAnswers == {0, 4}

\* learning goals kept in the database at most, and the target values
\* the goal form sends (0 for a field left empty)
GoalSlots == {1}
GoalTargets == {0, 10}

\* the class: its students, the days its clock shows (the last one a week
\* after the first) and the grades of its speaking recordings
ClassStudents == {1, 2}
ClassDays == {FirstDay, FirstDay + 1, FirstDay + 7}

\* submissions of one learner over three days at most, where the week's
\* count is looked at
MaxWeekSubs == 7

\* graded writing submissions of one learner, where the rounding of an
\* average is looked at, and the scores they are graded with
MaxRoundSubs == 4
RoundScores == {72, 73}

VARIABLES
    submissions,   \* Submission rows joined with their Grade, by created_at
    quizzes,       \* Quiz rows
    goals,         \* LearningGoal rows
    today,         \* datetime.utcnow().date()
    view           \* what the last request handler answered

vars == <<submissions, quizzes, goals, today, view>>

(***************************************************************************)
(* Rows.                                                                   *)
(***************************************************************************)
NoGrade ==
    [present |-> FALSE, score |-> NoneVal,
     pronunciation_score |-> NoneVal, fluency_score |-> NoneVal]

Grade(score, pron, flu) ==
    [present |-> TRUE, score |-> score,
     pronunciation_score |-> pron, fluency_score |-> flu]

Submission(student, type, date, grade) ==
    [student_id |-> student, submission_type |-> type,
     created_at |-> date, grade |-> grade]

Quiz(user, score, date) ==
    [user_id |-> user, score |-> score, date_taken |-> date]

LearningGoal(user, target, current) ==
    [user_id |-> user, target_value |-> target, current_value |-> current]

NoView == [kind |-> "none"]

(***************************************************************************)
(* Python built-ins.                                                       *)
(***************************************************************************)
\* truth value of an optional number: None and 0 are false
Truthy(x) == x # NoneVal /\ x # 0

Min(a, b) == IF a <= b THEN a ELSE b
Max(a, b) == IF a >= b THEN a ELSE b

RECURSIVE Sum(_)
Sum(seq) == IF seq = << >> THEN 0 ELSE Head(seq) + Sum(Tail(seq))

\* round(num / den, 1), in tenths.  The quotient is the double nearest to
\* num/den; round() then rounds the double's exact value half to even.  With
\* fewer than ten terms of halves a tie is a multiple of 1/4, which a double
\* holds exactly, so the tie goes to the even tenth.
Round1(num, den) ==
    LET q == (10 * num) \div den
        r == (10 * num) % den
    IN  IF 2 * r < den THEN q
        ELSE IF 2 * r > den THEN q + 1
        ELSE IF q % 2 = 0 THEN q ELSE q + 1

\* faulty variant: the sum in place of the mean
SumRound(xs) == 10 * Sum(xs)

\* round(sum(xs) / len(xs), 1) of a non-empty list of integers
MeanRound(xs) == Round1(Sum(xs), Len(xs))

\* faulty variant: the two sub-scores are added and not halved
MeanRoundOfSums(xs2) == Round1(Sum(xs2), Len(xs2))

\* the same for a list of halves, given doubled
MeanRoundHalves(xs2) == Round1(Sum(xs2), 2 * Len(xs2))

\* faulty variant: the dates in descending order
RECURSIVE SortedDescending(_)
SortedDescending(S) ==
    IF S = {} THEN << >>
    ELSE LET m == CHOOSE x \in S : \A y \in S : x >= y
         IN  <<m>> \o SortedDescending(S \ {m})

\* sorted(set)
RECURSIVE Sorted(_)
Sorted(S) ==
    IF S = {} THEN << >>
    ELSE LET m == CHOOSE x \in S : \A y \in S : x <= y
         IN  <<m>> \o Sorted(S \ {m})

\* date.weekday(): Monday is 0
Weekday(d) == (d + 6) % 7

\* date.strftime('%d %b'): the day and the month, without the year
Strftime(d) == d % 365

(***************************************************************************)
(* dashboard(): the student's view-model, from the student's submissions   *)
(* (subs, by created_at), the student's quiz rows (qz) and the two         *)
(* readings of the clock.                                                  *)
(***************************************************************************)
\* Submission.query.filter_by(student_id=...).order_by(created_at)
SubmissionsOf(all, u) == SelectSeq(all, LAMBDA s : s.student_id = u)

\* Quiz.query.filter_by(user_id=...)
QuizzesOf(all, u) == SelectSeq(all, LAMBDA q : q.user_id = u)

\* [s for s in submissions if s.submission_type == type and s.grade]
GradedOfType(subs, type) ==
    SelectSeq(subs, LAMBDA s : s.submission_type = type /\ s.grade.present)

speaking_subs(subs) == GradedOfType(subs, "SPEAKING")
writing_subs(subs) == GradedOfType(subs, "WRITING")
handwritten_subs(subs) == GradedOfType(subs, "HANDWRITTEN")

\* the records whose two sub-scores pass "if pronunciation_score and fluency_score"
SpeakingScored(subs) ==
    SelectSeq(speaking_subs(subs),
              LAMBDA s : Truthy(s.grade.pronunciation_score)
                         /\ Truthy(s.grade.fluency_score))

\* pronunciation_score + fluency_score of each: twice the per-record values
SubScoreSumsOf(subs) ==
    [i \in 1..Len(subs) |->
        subs[i].grade.pronunciation_score + subs[i].grade.fluency_score]

\* s.grade.score for s in subs
ScoresOf(subs) == [i \in 1..Len(subs) |-> subs[i].grade.score]

\* faulty variant: no value (None) when no record has both sub-scores
speaking_score_undefined(subs) ==
    IF Len(SpeakingScored(subs)) = 0 THEN NoneVal
    ELSE MeanRoundHalves(SubScoreSumsOf(SpeakingScored(subs)))

speaking_score(subs) ==
    IF Len(speaking_subs(subs)) = 0 THEN 0
    ELSE IF Len(SpeakingScored(subs)) = 0 THEN 0
    ELSE MeanRoundHalves(SubScoreSumsOf(SpeakingScored(subs)))

writing_score(subs) ==
    IF Len(writing_subs(subs)) = 0 THEN 0
    ELSE MeanRound(ScoresOf(writing_subs(subs)))

completed_quizzes(qz) == Len(qz)

\* faulty variant: only graded submissions give a date to the streak
submission_dates_graded(subs) ==
    {subs[i].created_at : i \in {j \in 1..Len(subs) : subs[j].grade.present}}

\* the set of created_at.date() of the submissions
submission_dates(subs) == {subs[i].created_at : i \in 1..Len(subs)}

\* faulty variant: a streak that a day without a submission does not end: the
\* submissions of the days up to check_date are counted
StreakIgnoringGaps(dates, check_date) ==
    Cardinality({d \in dates : d <= check_date})

\* faulty variant: a forward scan over the history, which keeps the length
\* of the last run of days however long ago it ended
RECURSIVE StreakOfLastRun(_, _)
StreakOfLastRun(dates, check_date) ==
    IF dates = {} THEN 0
    ELSE LET last == CHOOSE d \in dates : \A e \in dates : e <= d
         IN  1 + (IF (last - 1) \in dates
                  THEN StreakOfLastRun(dates \ {last}, check_date)
                  ELSE 0)

\* while check_date in submission_dates: current_streak += 1; check_date -= 1 day
RECURSIVE StreakFrom(_, _)
StreakFrom(dates, check_date) ==
    IF check_date \in dates THEN 1 + StreakFrom(dates, check_date - 1) ELSE 0

current_streak(subs, now) ==
    IF Len(subs) = 0 THEN 0 ELSE StreakFrom(submission_dates(subs), now)

weekly_goal_target == 5

\* faulty variant: the week starts on Sunday
week_start_sunday(now) == now - (now % 7)

week_start(now) == now - Weekday(now)

weekly_submissions(subs, now) ==
    SelectSeq(subs, LAMBDA s : s.created_at >= week_start(now))

weekly_goal_current(subs, now) == Len(weekly_submissions(subs, now))

\* faulty variant: the percentage without the cap
weekly_goal_percentage_unclamped(current) ==
    (current * 100) \div weekly_goal_target

\* min(100, int((current / target) * 100)): with target 5 and current below 11
\* the double product is the exact integer, so int() is the integer quotient
weekly_goal_percentage(current) ==
    IF weekly_goal_target > 0
    THEN Min(100, (current * 100) \div weekly_goal_target) ELSE 0

weekly_goal_remaining(current) == Max(0, weekly_goal_target - current)

(***************************************************************************)
(* The chart: the events of each area, the dates, the per-date lists and   *)
(* the four series.                                                        *)
(***************************************************************************)
\* "pronunciation_score is not None and fluency_score is not None"
SpeakingEvents(subs) ==
    SelectSeq(speaking_subs(subs),
              LAMBDA s : s.grade.pronunciation_score # NoneVal
                         /\ s.grade.fluency_score # NoneVal)

\* "sub.grade and sub.grade.score is not None"
ScoreEvents(graded) == SelectSeq(graded, LAMBDA s : s.grade.score # NoneVal)

\* "quiz.date_taken and quiz.score is not None"
QuizEvents(qz) ==
    SelectSeq(qz, LAMBDA q : q.date_taken # NoneVal /\ q.score # NoneVal)

\* the date keys of the events
CreatedAtOf(subs) == {subs[i].created_at : i \in 1..Len(subs)}
DateTakenOf(qz) == {qz[i].date_taken : i \in 1..Len(qz)}

\* q.score for q in qz
QuizScoresOf(qz) == [i \in 1..Len(qz) |-> qz[i].score]

all_dates(subs, qz) ==
    CreatedAtOf(SpeakingEvents(subs))
    \cup CreatedAtOf(ScoreEvents(writing_subs(subs)))
    \cup CreatedAtOf(ScoreEvents(handwritten_subs(subs)))
    \cup DateTakenOf(QuizEvents(qz))

sorted_dates(subs, qz) == Sorted(all_dates(subs, qz))

\* the lists at one date, in the order of the loops
speaking_by_date(subs, date) ==
    SubScoreSumsOf(SelectSeq(SpeakingEvents(subs),
                             LAMBDA s : s.created_at = date))

writing_by_date(subs, date) ==
    ScoresOf(SelectSeq(ScoreEvents(writing_subs(subs)),
                       LAMBDA s : s.created_at = date))

handwritten_by_date(subs, date) ==
    ScoresOf(SelectSeq(ScoreEvents(handwritten_subs(subs)),
                       LAMBDA s : s.created_at = date))

quiz_by_date(qz, date) ==
    QuizScoresOf(SelectSeq(QuizEvents(qz), LAMBDA q : q.date_taken = date))

\* faulty variant: None where the date is no key
SeriesValueNoFill(list) == IF Len(list) > 0 THEN MeanRound(list) ELSE NoneVal

\* round(sum(list) / len(list), 1) if the date is a key, else 0
SeriesValue(list) == IF Len(list) > 0 THEN MeanRound(list) ELSE 0

SeriesValueHalves(list2) ==
    IF Len(list2) > 0 THEN MeanRoundHalves(list2) ELSE 0

chart_data(subs, qz) ==
    LET ds == sorted_dates(subs, qz)
    IN  [dates |-> [i \in 1..Len(ds) |-> Strftime(ds[i])],
         speaking_scores |->
             [i \in 1..Len(ds) |->
                 SeriesValueHalves(speaking_by_date(subs, ds[i]))],
         writing_scores |->
             [i \in 1..Len(ds) |-> SeriesValue(writing_by_date(subs, ds[i]))],
         handwritten_scores |->
             [i \in 1..Len(ds) |->
                 SeriesValue(handwritten_by_date(subs, ds[i]))],
         quiz_scores |->
             [i \in 1..Len(ds) |-> SeriesValue(quiz_by_date(qz, ds[i]))]]

handwritten_score(subs) ==
    IF Len(handwritten_subs(subs)) = 0 THEN 0
    ELSE MeanRound(ScoresOf(handwritten_subs(subs)))

quiz_score(qz) ==
    LET quiz_scores_list ==
            QuizScoresOf(SelectSeq(qz, LAMBDA q : q.score # NoneVal))
    IN  IF Len(qz) = 0 THEN 0
        ELSE IF Len(quiz_scores_list) = 0 THEN 0
        ELSE MeanRound(quiz_scores_list)

(***************************************************************************)
(* Insights and the recommendation.                                        *)
(***************************************************************************)
\* the keys of area_scores, in the order of the dict literal
AreaOrder == <<"Speaking", "Writing", "Quiz", "Handwritten">>

area_scores(subs, qz) ==
    [a \in {AreaOrder[i] : i \in 1..Len(AreaOrder)} |->
        CASE a = "Speaking" -> speaking_score(subs)
          [] a = "Writing" -> writing_score(subs)
          [] a = "Quiz" -> quiz_score(qz)
          [] a = "Handwritten" -> handwritten_score(subs)]

\* faulty variant: no area is filtered out
all_area_scores(scores) == AreaOrder

\* {k: v for k, v in area_scores.items() if v > 0}: its keys, in order
non_zero_scores(scores) == SelectSeq(AreaOrder, LAMBDA a : scores[a] > 0)

\* faulty variant: the last key of the greatest value
PyMaxLast(keys, f) ==
    keys[CHOOSE i \in 1..Len(keys) :
            /\ \A j \in 1..Len(keys) : f[keys[j]] <= f[keys[i]]
            /\ \A j \in (i + 1)..Len(keys) : f[keys[j]] < f[keys[i]]]

\* max(keys, key=f): the first key of the greatest value
PyMax(keys, f) ==
    keys[CHOOSE i \in 1..Len(keys) :
            /\ \A j \in 1..Len(keys) : f[keys[j]] <= f[keys[i]]
            /\ \A j \in 1..(i - 1) : f[keys[j]] < f[keys[i]]]

\* min(keys, key=f): the first key of the least value
PyMin(keys, f) ==
    keys[CHOOSE i \in 1..Len(keys) :
            /\ \A j \in 1..Len(keys) : f[keys[j]] >= f[keys[i]]
            /\ \A j \in 1..(i - 1) : f[keys[j]] > f[keys[i]]]

Insights(scores) ==
    LET nz == non_zero_scores(scores)
    IN  IF Len(nz) > 0
        THEN [strongest_area |-> PyMax(nz, scores),
              weakest_area |-> PyMin(nz, scores),
              strongest_score |-> scores[PyMax(nz, scores)],
              weakest_score |-> scores[PyMin(nz, scores)]]
        ELSE [strongest_area |-> "Speaking",
              weakest_area |-> "Handwritten",
              strongest_score |-> 0,
              weakest_score |-> 0]

\* faulty variant: thresholds that an average of exactly 70.0 matches
recommended_next_inclusive(subs, qz) ==
    IF Len(speaking_subs(subs)) = 0 THEN "Improve Your Speaking"
    ELSE IF Len(writing_subs(subs)) = 0 THEN "Improve Your Writing"
    ELSE IF speaking_score(subs) <= 700 THEN "Improve Your Speaking"
    ELSE IF writing_score(subs) <= 700 THEN "Improve Your Writing"
    ELSE IF completed_quizzes(qz) = 0 THEN "Take a Quiz"
    ELSE "Start Your First Activity"

\* the thresholds compare one-decimal averages, kept in tenths, with 70
recommended_next(subs, qz) ==
    IF Len(speaking_subs(subs)) = 0 THEN "Improve Your Speaking"
    ELSE IF Len(writing_subs(subs)) = 0 THEN "Improve Your Writing"
    ELSE IF speaking_score(subs) < 700 THEN "Improve Your Speaking"
    ELSE IF writing_score(subs) < 700 THEN "Improve Your Writing"
    ELSE IF completed_quizzes(qz) = 0 THEN "Take a Quiz"
    ELSE "Start Your First Activity"

\* [s for s in submissions if s.grade]
graded_subs(subs) == SelectSeq(subs, LAMBDA s : s.grade.present)

\* sum() over a list that holds None raises TypeError
SumRaises(xs) == \E i \in 1..Len(xs) : xs[i] = NoneVal

avg_score(subs) ==
    IF Len(graded_subs(subs)) = 0 THEN 0
    ELSE MeanRound(ScoresOf(graded_subs(subs)))

\* the statements of dashboard() that raise: the sums over grade.score
DashboardRaises(subs) ==
    \/ SumRaises(ScoresOf(writing_subs(subs)))
    \/ SumRaises(ScoresOf(handwritten_subs(subs)))
    \/ SumRaises(ScoresOf(graded_subs(subs)))

\* render_template('dashboard.html', ...): now1 is the clock read for the
\* streak, now2 the clock read for the weekly goal.  handwritten_score and
\* quiz_score are the locals the insights read.  The lists handed on as
\* they are (submissions, recent_submissions, latest_graded, goals) and the
\* count of pending activities are left out.
DashboardView(u, subs, qz, now1, now2) ==
    IF DashboardRaises(subs)
    THEN [kind |-> "dashboard", status |-> "error", user |-> u]
    ELSE [kind |-> "dashboard", status |-> "ok", user |-> u,
          streak_today |-> now1, week_today |-> now2,
          speaking_score |-> speaking_score(subs),
          writing_score |-> writing_score(subs),
          handwritten_score |-> handwritten_score(subs),
          quiz_score |-> quiz_score(qz),
          quiz_progress |-> completed_quizzes(qz),
          current_streak |-> current_streak(subs, now1),
          weekly_goal_current |-> weekly_goal_current(subs, now2),
          weekly_goal_target |-> weekly_goal_target,
          weekly_goal_percentage |->
              weekly_goal_percentage(weekly_goal_current(subs, now2)),
          weekly_goal_remaining |->
              weekly_goal_remaining(weekly_goal_current(subs, now2)),
          chart_data |-> chart_data(subs, qz),
          insights |-> Insights(area_scores(subs, qz)),
          recommended_next |-> recommended_next(subs, qz),
          total_submissions |-> Len(subs),
          average_score |-> avg_score(subs)]

(***************************************************************************)
(* instructor_dashboard(): the class summary and the 7-day sparkline.      *)
(***************************************************************************)
class_avg(all_subs) ==
    IF Len(graded_subs(all_subs)) = 0 THEN 0
    ELSE MeanRound(ScoresOf(graded_subs(all_subs)))

\* set(s.student_id for s in subs)
StudentIdsOf(subs) == {subs[i].student_id : i \in 1..Len(subs)}

\* faulty variant: only the students with a graded submission are counted
active_count_graded(all_subs) ==
    Cardinality(StudentIdsOf(graded_subs(all_subs)))

active_count(all_subs) == Cardinality(StudentIdsOf(all_subs))

\* faulty variant: the graded rows are counted
pending_count_of_graded(all_subs) == Len(graded_subs(all_subs))

pending_count(all_subs) == Len(all_subs) - Len(graded_subs(all_subs))

\* faulty variant: the window with today first
last_7_days_newest_first(now) == [i \in 1..7 |-> now - (i - 1)]

\* [today - timedelta(days=i) for i in range(6, -1, -1)]
last_7_days(now) == [i \in 1..7 |-> now - (7 - i)]

\* the submissions the loop counts for one day of the window
SubsOn(all_subs, date) == SelectSeq(all_subs, LAMBDA s : s.created_at = date)

sparkline_data(all_subs, now) ==
    LET days == last_7_days(now)
    IN  [submissions |-> [i \in 1..7 |-> Len(SubsOn(all_subs, days[i]))],
         pending |->
             [i \in 1..7 |->
                 Len(SubsOn(all_subs, days[i]))
                 - Len(graded_subs(SubsOn(all_subs, days[i])))],
         class_avg |->
             [i \in 1..7 |->
                 SeriesValue(ScoresOf(graded_subs(SubsOn(all_subs,
                                                        days[i]))))],
         active_students |->
             [i \in 1..7 |->
                 Cardinality(StudentIdsOf(SubsOn(all_subs, days[i])))]]

InstructorRaises(all_subs) == SumRaises(ScoresOf(graded_subs(all_subs)))

InstructorView(all_subs, now) ==
    IF InstructorRaises(all_subs)
    THEN [kind |-> "instructor", status |-> "error"]
    ELSE [kind |-> "instructor", status |-> "ok", today |-> now,
          class_avg |-> class_avg(all_subs),
          active_count |-> active_count(all_subs),
          pending_count |-> pending_count(all_subs),
          sparkline_data |-> sparkline_data(all_subs, now)]

(***************************************************************************)
(* The grading service and the quiz service.                               *)
(***************************************************************************)
\* what model.generate_content() does: it answers JSON with a score, it
\* answers JSON that is empty, or it raises
AIResponses ==
    {[kind |-> "json", score |-> s] : s \in Scores}
    \cup {[kind |-> "empty", score |-> NoneVal],
          [kind |-> "raise", score |-> NoneVal]}

\* AIService.evaluate_writing: the parsed JSON, or on an exception the dict
\* {"score": 0, ...}; truthy says whether "if ai_res:" passes
evaluate_writing(resp) ==
    CASE resp.kind = "json" -> [truthy |-> TRUE, score |-> resp.score]
      [] resp.kind = "empty" -> [truthy |-> FALSE, score |-> NoneVal]
      [] resp.kind = "raise" -> [truthy |-> TRUE, score |-> 0]

\* Grade(score=ai_res.get('score', 0)) if ai_res, else no Grade row
GradeFor(ai_res) ==
    IF ai_res.truthy THEN Grade(ai_res.score, NoneVal, NoneVal) ELSE NoGrade

\* QuizService.get_questions(limit=5): the questions of one quiz
QuizLimit == 5

\* QuizService.calculate_final_score: round((correct / total) * 100, 1),
\* which is exact for the totals used here
calculate_final_score(correct, total) ==
    IF total > 0 THEN (correct * 100) \div total ELSE 0

(***************************************************************************)
(* The handlers.                                                           *)
(***************************************************************************)
Init ==
    /\ submissions = << >>
    /\ quizzes = << >>
    /\ goals = << >>
    /\ today = FirstDay
    /\ view = NoView

\* POST /submit/writing
submit_writing(u, resp) ==
    /\ Len(submissions) < MaxSubs
    /\ submissions' =
           Append(submissions,
                  Submission(u, "WRITING", today,
                             GradeFor(evaluate_writing(resp))))
    /\ view' = [kind |-> "submit", user |-> u, ai |-> resp.kind]
    /\ UNCHANGED <<quizzes, goals, today>>

\* POST /submit/handwritten: nothing is stored when the OCR finds no text
submit_handwritten(u, extracted_text, resp) ==
    /\ Len(submissions) < MaxSubs
    /\ IF extracted_text
       THEN /\ submissions' =
                   Append(submissions,
                          Submission(u, "HANDWRITTEN", today,
                                     GradeFor(evaluate_writing(resp))))
            /\ view' = [kind |-> "submit", user |-> u, ai |-> resp.kind]
       ELSE /\ UNCHANGED submissions
            /\ view' = [kind |-> "submit", user |-> u, ai |-> "unused"]
    /\ UNCHANGED <<quizzes, goals, today>>

\* a speaking recording is stored, graded or not
submit_speaking(u, grade) ==
    /\ Len(submissions) < MaxSubs
    /\ submissions' = Append(submissions, Submission(u, "SPEAKING", today, grade))
    /\ view' = [kind |-> "submit", user |-> u, ai |-> "unused"]
    /\ UNCHANGED <<quizzes, goals, today>>

\* QuizService.save_result of a finished quiz
save_result(u, correct) ==
    /\ Len(quizzes) < Cardinality(QuizSlots)
    /\ quizzes' =
           Append(quizzes,
                  Quiz(u, calculate_final_score(correct, QuizLimit), today))
    /\ view' = NoView
    /\ UNCHANGED <<submissions, goals, today>>

\* POST /delete_submission/<id>: the owner's row and its grade go
delete_submission(u, i) ==
    /\ i \in 1..Len(submissions)
    /\ submissions[i].student_id = u
    /\ submissions' =
           SubSeq(submissions, 1, i - 1)
           \o SubSeq(submissions, i + 1, Len(submissions))
    /\ view' = NoView
    /\ UNCHANGED <<quizzes, goals, today>>

\* POST /goals: a goal is stored when the name and the target are given
goals_post(u, goal_name, target_value) ==
    /\ Len(goals) < Cardinality(GoalSlots)
    /\ IF goal_name /\ Truthy(target_value)
       THEN /\ goals' = Append(goals, LearningGoal(u, target_value, 0))
            /\ view' = [kind |-> "goal", user |-> u, success |-> TRUE]
       ELSE /\ UNCHANGED goals
            /\ view' = [kind |-> "goal", user |-> u, success |-> FALSE]
    /\ UNCHANGED <<submissions, quizzes, today>>

\* POST /delete-goal/<id>: only the owner's goal goes
delete_goal(u, i) ==
    /\ i \in 1..Len(goals)
    /\ IF goals[i].user_id # u
       THEN /\ UNCHANGED goals
            /\ view' = [kind |-> "goal", user |-> u, success |-> FALSE]
       ELSE /\ goals' =
                   SubSeq(goals, 1, i - 1) \o SubSeq(goals, i + 1, Len(goals))
            /\ view' = [kind |-> "goal", user |-> u, success |-> TRUE]
    /\ UNCHANGED <<submissions, quizzes, today>>

\* time passes between two requests: the clock shows a later day
Tick(day) ==
    /\ day > today
    /\ today' = day
    /\ view' = NoView
    /\ UNCHANGED <<submissions, quizzes, goals>>

\* midnight (UTC) passes between two requests
NextDay ==
    /\ today + 1 \in Days
    /\ Tick(today + 1)

\* faulty variant: a dashboard that clears the learner's goals
dashboard_clearing_goals(u, midnight) ==
    /\ midnight => today + 1 \in Days
    /\ today' = IF midnight THEN today + 1 ELSE today
    /\ view' = DashboardView(u, SubmissionsOf(submissions, u),
                             QuizzesOf(quizzes, u), today, today')
    /\ goals' = SelectSeq(goals, LAMBDA g : g.user_id # u)
    /\ UNCHANGED <<submissions, quizzes>>

\* GET /dashboard of student u.  The clock is read twice, for the streak and
\* for the weekly goal; midnight may pass in between.
dashboard(u, midnight) ==
    /\ midnight => today + 1 \in Days
    /\ today' = IF midnight THEN today + 1 ELSE today
    /\ view' = DashboardView(u, SubmissionsOf(submissions, u),
                             QuizzesOf(quizzes, u), today, today')
    /\ UNCHANGED <<submissions, quizzes, goals>>

\* GET /instructor/dashboard
instructor_dashboard ==
    /\ view' = InstructorView(submissions, today)
    /\ UNCHANGED <<submissions, quizzes, goals, today>>

\* the grades of speaking recordings: none yet; complete; without the
\* overall score; with a sub-score of 0; without the fluency sub-score
SpeakingGrades ==
    {NoGrade, Grade(70, 80, 60), Grade(60, 60, 60), Grade(NoneVal, 80, 60),
     Grade(40, 0, 80), Grade(80, 80, NoneVal)}

ClassSpeakingGrades == {Grade(NoneVal, 80, 60)}

Next ==
    \/ \E u \in Students, resp \in AIResponses : submit_writing(u, resp)
    \/ \E u \in Students, ocr \in BOOLEAN, resp \in AIResponses :
           submit_handwritten(u, ocr, resp)
    \/ \E u \in Students, g \in SpeakingGrades : submit_speaking(u, g)
    \/ \E u \in Students, correct \in CorrectAnswers : save_result(u, correct)
    \/ \E u \in Students, i \in 1..MaxSubs : delete_submission(u, i)
    \/ NextDay
    \/ \E u \in Students, midnight \in BOOLEAN : dashboard(u, midnight)

\* the learner's side: one learner's submissions, quizzes and dashboard
Spec == Init /\ [][Next]_vars

\* the class's side: the submissions of two students over a week and a
\* day, and the instructor's dashboard
NextClass ==
    \/ \E u \in ClassStudents, resp \in AIResponses : submit_writing(u, resp)
    \/ \E u \in ClassStudents, g \in ClassSpeakingGrades :
           submit_speaking(u, g)
    \/ \E u \in ClassStudents, i \in 1..MaxSubs : delete_submission(u, i)
    \/ \E day \in ClassDays : Tick(day)
    \/ instructor_dashboard

SpecClass == Init /\ [][NextClass]_vars

\* the whole store: submissions, quizzes and goals, and both dashboards
NextStore ==
    \/ \E u \in Students, resp \in AIResponses : submit_writing(u, resp)
    \/ \E u \in Students, g \in ClassSpeakingGrades : submit_speaking(u, g)
    \/ \E u \in Students, correct \in CorrectAnswers : save_result(u, correct)
    \/ \E u \in ClassStudents, goal_name \in BOOLEAN, target \in GoalTargets :
           goals_post(u, goal_name, target)
    \/ \E u \in ClassStudents, i \in 1..Cardinality(GoalSlots) :
           delete_goal(u, i)
    \/ \E u \in Students, i \in 1..MaxSubs : delete_submission(u, i)
    \/ NextDay
    \/ \E u \in Students, midnight \in BOOLEAN : dashboard(u, midnight)
    \/ instructor_dashboard

SpecStore == Init /\ [][NextStore]_vars

\* one learner's submissions and quizzes, seen by the learner and by the
\* instructor
NextBoth ==
    \/ Next
    \/ instructor_dashboard

SpecBoth == Init /\ [][NextBoth]_vars

\* n ungraded writing submissions of one day
RowsOn(n, day) == [i \in 1..n |-> Submission(1, "WRITING", day, NoGrade)]

\* a learner with up to MaxWeekSubs submissions on the three days that end
\* with today
InitWeek ==
    /\ today \in Days
    /\ \E a, b, c \in 0..MaxWeekSubs :
           /\ a + b + c <= MaxWeekSubs
           /\ submissions =
                  RowsOn(a, today - 2) \o RowsOn(b, today - 1)
                  \o RowsOn(c, today)
    /\ quizzes = << >>
    /\ goals = << >>
    /\ view = NoView

NextWeek ==
    \/ NextDay
    \/ \E u \in Students, midnight \in BOOLEAN : dashboard(u, midnight)

\* the weekly goal of a learner who submits often
SpecWeek == InitWeek /\ [][NextWeek]_vars

\* the writing submissions the grading service scored with one of RoundScores
RoundRows ==
    {Submission(1, "WRITING", FirstDay, GradeFor(evaluate_writing(resp))) :
        resp \in {[kind |-> "json", score |-> s] : s \in RoundScores}}

\* a learner with up to MaxRoundSubs graded writing submissions of the
\* first day
InitRound ==
    /\ submissions \in UNION {[1..n -> RoundRows] : n \in 0..MaxRoundSubs}
    /\ quizzes = << >>
    /\ goals = << >>
    /\ today = FirstDay
    /\ view = NoView

NextRound ==
    \/ \E u \in Students, i \in 1..MaxRoundSubs : delete_submission(u, i)
    \/ NextDay
    \/ \E u \in Students, midnight \in BOOLEAN : dashboard(u, midnight)

\* the averages of a learner whose scores lie close together
SpecRound == InitRound /\ [][NextRound]_vars

(***************************************************************************)
(* The claims.  A dashboard answer is judged against the rows it was       *)
(* computed from: every handler that changes the rows or the day replaces  *)
(* the answer.                                                             *)
(***************************************************************************)
Abs(x) == IF x < 0 THEN -x ELSE x

RECURSIVE SumFn(_, _)
SumFn(f, I) ==
    IF I = {} THEN 0
    ELSE LET i == CHOOSE x \in I : TRUE IN f[i] + SumFn(f, I \ {i})

\* v, in tenths, is num/den rounded to one decimal (to a nearest tenth)
NearestTenth(v, num, den) == 2 * Abs(v * den - 10 * num) <= den

DashOk == view.kind = "dashboard" /\ view.status = "ok"

\* the rows of the learner the dashboard is for
MineIdx == {i \in 1..Len(submissions) : submissions[i].student_id = view.user}
MyQuizIdx == {i \in 1..Len(quizzes) : quizzes[i].user_id = view.user}

OfKind(type) == {i \in MineIdx : submissions[i].submission_type = type}
GradedIdx == {i \in MineIdx : submissions[i].grade.present}

\* graded SPEAKING rows with both sub-scores present, 0 included
SpeakingContrib ==
    {i \in OfKind("SPEAKING") \cap GradedIdx :
        /\ submissions[i].grade.pronunciation_score # NoneVal
        /\ submissions[i].grade.fluency_score # NoneVal}

SubScoreSums ==
    [i \in SpeakingContrib |->
        submissions[i].grade.pronunciation_score
        + submissions[i].grade.fluency_score]

\* C1: the speaking average is 0.0 without contributing rows, and else the
\* mean of (pronunciation + fluency) / 2 over the graded SPEAKING rows with
\* both sub-scores present, a sub-score of 0 counting as present.
C1_SpeakingAverage ==
    DashOk =>
        IF SpeakingContrib = {} THEN view.speaking_score = 0
        ELSE NearestTenth(view.speaking_score,
                          SumFn(SubScoreSums, SpeakingContrib),
                          2 * Cardinality(SpeakingContrib))

\* the first of the six rules that matches
FirstMatch(noSpeaking, noWriting, speakingAvg, writingAvg, quizCount) ==
    IF noSpeaking THEN "Improve Your Speaking"
    ELSE IF noWriting THEN "Improve Your Writing"
    ELSE IF speakingAvg < 700 THEN "Improve Your Speaking"
    ELSE IF writingAvg < 700 THEN "Improve Your Writing"
    ELSE IF quizCount = 0 THEN "Take a Quiz"
    ELSE "Start Your First Activity"

\* C2 as stated: the recommendation is the first matching rule, rules 1 and
\* 2 asking whether the learner has no SPEAKING (WRITING) record at all.
C2_RecommendationAnyRecord ==
    DashOk =>
        view.recommended_next =
            FirstMatch(OfKind("SPEAKING") = {}, OfKind("WRITING") = {},
                       view.speaking_score, view.writing_score,
                       Cardinality(MyQuizIdx))

\* C2, amended: the recommendation is the first matching rule, rules 1 and 2
\* asking whether the learner has no graded SPEAKING (WRITING) record; the
\* thresholds are strict, so an average of exactly 70.0 matches neither
\* rule 3 nor rule 4.
C2_RecommendationGradedRecord ==
    DashOk =>
        view.recommended_next =
            FirstMatch(OfKind("SPEAKING") \cap GradedIdx = {},
                       OfKind("WRITING") \cap GradedIdx = {},
                       view.speaking_score, view.writing_score,
                       Cardinality(MyQuizIdx))

\* both averages are exactly 70.0 and no quiz is taken: rule 5 decides
C2_Witness ==
    /\ DashOk
    /\ view.speaking_score = 700
    /\ view.writing_score = 700
    /\ MyQuizIdx = {}
    /\ view.recommended_next = "Take a Quiz"

\* the days on which the learner has a submission
MyDates == {submissions[i].created_at : i \in MineIdx}

\* every one of the k days ending with day t has a submission
RunOf(k, t) == \A j \in 0..(k - 1) : (t - j) \in MyDates

\* C3: currentStreak is the largest k >= 0 such that each of the days today,
\* today-1, ..., today-(k-1) has a submission; so it is 0 when no submission
\* is dated today.
C3_CurrentStreak ==
    DashOk =>
        /\ view.current_streak >= 0
        /\ RunOf(view.current_streak, view.streak_today)
        /\ ~RunOf(view.current_streak + 1, view.streak_today)
        /\ (view.streak_today \notin MyDates => view.current_streak = 0)

\* a streak of two days that the day before them ends
C3_Witness ==
    /\ DashOk
    /\ view.current_streak = 2
    /\ (view.streak_today - 2) \notin MyDates

\* C4: the dashboards complete without raising an error for every record
\* set, and an average over no graded records is 0.0.
C4_Total ==
    /\ view.kind \in {"dashboard", "instructor"} => view.status = "ok"
    /\ (DashOk /\ GradedIdx = {}) => view.average_score = 0

\* C5: an ungraded record contributes to no area average and to no chart
\* series (the dashboard computed without the ungraded records has the same
\* averages and the same chart), yet its date counts toward the streak and
\* it counts toward the weekly goal; quiz attempts count toward neither.
C5_Ungraded ==
    DashOk =>
        LET mine == SelectSeq(submissions,
                              LAMBDA s : s.student_id = view.user)
            graded == SelectSeq(mine, LAMBDA s : s.grade.present)
            qz == SelectSeq(quizzes, LAMBDA q : q.user_id = view.user)
            without == DashboardView(view.user, graded, qz,
                                     view.streak_today, view.week_today)
            monday == view.week_today - ((view.week_today + 6) % 7)
        IN  /\ view.speaking_score = without.speaking_score
            /\ view.writing_score = without.writing_score
            /\ view.handwritten_score = without.handwritten_score
            /\ view.quiz_score = without.quiz_score
            /\ view.average_score = without.average_score
            /\ view.chart_data = without.chart_data
            /\ RunOf(view.current_streak, view.streak_today)
            /\ ~RunOf(view.current_streak + 1, view.streak_today)
            /\ view.weekly_goal_current =
                   Cardinality({i \in MineIdx :
                                   submissions[i].created_at >= monday})

\* only ungraded submissions, all of today, and a quiz taken the day before:
\* the streak is 1 and the week counts the submissions, not the quiz
C5_Witness ==
    /\ DashOk
    /\ MineIdx # {}
    /\ GradedIdx = {}
    /\ \A i \in MineIdx : submissions[i].created_at = view.streak_today
    /\ \E i \in MyQuizIdx : quizzes[i].date_taken = view.streak_today - 1
    /\ view.current_streak = 1
    /\ view.weekly_goal_current = Cardinality(MineIdx)

\* C6: when the grading service fails the submission stays ungraded.
C6_FailureLeavesUngraded ==
    (view.kind = "submit" /\ view.ai = "raise") =>
        ~submissions[Len(submissions)].grade.present

(***************************************************************************)
(* The chart, stated from the rows: the events of each area and the dates  *)
(* that have one.                                                          *)
(***************************************************************************)
Areas == {"speaking", "writing", "quiz", "handwritten"}

\* the rows (quiz rows for "quiz") that are scored events of an area
EventIdx(area) ==
    CASE area = "speaking" -> SpeakingContrib
      [] area = "writing" ->
            {i \in OfKind("WRITING") \cap GradedIdx :
                submissions[i].grade.score # NoneVal}
      [] area = "handwritten" ->
            {i \in OfKind("HANDWRITTEN") \cap GradedIdx :
                submissions[i].grade.score # NoneVal}
      [] area = "quiz" ->
            {i \in MyQuizIdx :
                quizzes[i].score # NoneVal /\ quizzes[i].date_taken # NoneVal}

EventDate(area, i) ==
    IF area = "quiz" THEN quizzes[i].date_taken ELSE submissions[i].created_at

\* twice the value of an event (the speaking value is a half)
EventValue2(area, i) ==
    CASE area = "speaking" -> SubScoreSums[i]
      [] area = "quiz" -> 2 * quizzes[i].score
      [] OTHER -> 2 * submissions[i].grade.score

EventsOn(area, d) == {i \in EventIdx(area) : EventDate(area, i) = d}

QualDates == UNION {{EventDate(a, i) : i \in EventIdx(a)} : a \in Areas}

\* the place of date d among the dates with data, the earliest being 1
Rank(dates, d) == 1 + Cardinality({e \in dates : e < d})

\* the i-th date with data, counted from the earliest
DateAt(i) == CHOOSE d \in QualDates : Rank(QualDates, d) = i

SeriesOf(chart, area) ==
    CASE area = "speaking" -> chart.speaking_scores
      [] area = "writing" -> chart.writing_scores
      [] area = "quiz" -> chart.quiz_scores
      [] area = "handwritten" -> chart.handwritten_scores

\* C7: the four series have the length of the dates array, which is the
\* number of distinct dates on which some area has a scored event, and an
\* area without an event on a date has 0 at that date's index.
C7_SeriesAligned ==
    DashOk =>
        LET chart == view.chart_data
            dates == QualDates
        IN  /\ Len(chart.dates) = Cardinality(dates)
            /\ \A a \in Areas : Len(SeriesOf(chart, a)) = Cardinality(dates)
            /\ \A a \in Areas : \A d \in dates :
                   EventsOn(a, d) = {} =>
                       SeriesOf(chart, a)[Rank(dates, d)] = 0

\* two dates, the first with writing only, the second with speaking only
C7_Witness ==
    /\ DashOk
    /\ Len(view.chart_data.dates) = 2
    /\ view.chart_data.writing_scores = <<700, 0>>
    /\ view.chart_data.speaking_scores = <<0, 700>>

\* C8: the dates axis is the strictly ascending sequence of exactly the dates
\* on which some area has a scored event (each date with data once, at its
\* place in ascending order), each shown as its day and month.
C8_DatesAxis ==
    DashOk =>
        LET chart == view.chart_data
            dates == QualDates
        IN  /\ Len(chart.dates) = Cardinality(dates)
            /\ \A d \in dates : chart.dates[Rank(dates, d)] = Strftime(d)

\* three dates, the last one with a quiz only
C8_Witness ==
    /\ DashOk
    /\ Len(view.chart_data.dates) = 3
    /\ Cardinality(QualDates) = 3
    /\ EventsOn("quiz", DateAt(3)) # {}
    /\ EventsOn("writing", DateAt(3)) = {}
    /\ EventsOn("speaking", DateAt(3)) = {}
    /\ EventsOn("handwritten", DateAt(3)) = {}

\* C9: where an area has events on a date, its series value there is the
\* mean of that area's event values of that date, rounded to one decimal.
C9_SeriesMean ==
    DashOk =>
        LET chart == view.chart_data
            dates == QualDates
        IN  /\ Len(chart.dates) = Cardinality(dates)
            /\ \A a \in Areas : \A d \in dates :
                   LET events == EventsOn(a, d)
                       values2 == [i \in events |-> EventValue2(a, i)]
                   IN  events # {} =>
                           NearestTenth(SeriesOf(chart, a)[Rank(dates, d)],
                                        SumFn(values2, events),
                                        2 * Cardinality(events))

\* two writing events of one day, scored 70 and 0, give 35.0 there, while a
\* quiz of another day, scored 80, leaves that value alone
C9_Witness ==
    /\ DashOk
    /\ Len(view.chart_data.dates) = 2
    /\ \E i \in 1..2 :
           /\ Cardinality(EventsOn("writing", DateAt(i))) = 2
           /\ view.chart_data.writing_scores[i] = 350
           /\ view.chart_data.quiz_scores[3 - i] = 800

AreaNames == {"Speaking", "Writing", "Quiz", "Handwritten"}

\* the four area scores the dashboard computed
ViewScore(a) ==
    CASE a = "Speaking" -> view.speaking_score
      [] a = "Writing" -> view.writing_score
      [] a = "Quiz" -> view.quiz_score
      [] a = "Handwritten" -> view.handwritten_score

\* C10: strongest and weakest are chosen among the areas of nonzero score
\* when there is one, the strongest with the greatest and the weakest with
\* the least nonzero score; when all four are 0 the answer is Speaking and
\* Handwritten with 0.0.
C10_Insights ==
    DashOk =>
        LET nz == {a \in AreaNames : ViewScore(a) # 0}
            ins == view.insights
        IN  IF nz # {}
            THEN /\ ins.strongest_area \in nz
                 /\ ins.weakest_area \in nz
                 /\ ins.strongest_score = ViewScore(ins.strongest_area)
                 /\ ins.weakest_score = ViewScore(ins.weakest_area)
                 /\ \A a \in nz : ViewScore(a) <= ins.strongest_score
                 /\ \A a \in nz : ViewScore(a) >= ins.weakest_score
            ELSE /\ ins.strongest_area = "Speaking"
                 /\ ins.weakest_area = "Handwritten"
                 /\ ins.strongest_score = 0
                 /\ ins.weakest_score = 0

\* writing is graded and at 0.0, and the weakest area is another one
C10_Witness ==
    /\ DashOk
    /\ OfKind("WRITING") \cap GradedIdx # {}
    /\ view.writing_score = 0
    /\ view.insights.weakest_score > 0
    /\ view.insights.strongest_score > view.insights.weakest_score

\* the place of an area in the order Speaking, Writing, Quiz, Handwritten
AreaRank(a) ==
    CASE a = "Speaking" -> 1
      [] a = "Writing" -> 2
      [] a = "Quiz" -> 3
      [] a = "Handwritten" -> 4

\* C11: among the areas that share the greatest nonzero score the strongest
\* is the earliest in the order Speaking, Writing, Quiz, Handwritten, and
\* among those that share the least nonzero score the weakest is the
\* earliest in that order; so the four scores determine the selection.
C11_TieBreak ==
    DashOk =>
        LET nz == {a \in AreaNames : ViewScore(a) > 0}
            best == {a \in nz : \A b \in nz : ViewScore(b) <= ViewScore(a)}
            worst == {a \in nz : \A b \in nz : ViewScore(b) >= ViewScore(a)}
            ins == view.insights
        IN  nz # {} =>
                /\ ins.strongest_area \in best
                /\ \A b \in best :
                       AreaRank(ins.strongest_area) <= AreaRank(b)
                /\ ins.weakest_area \in worst
                /\ \A b \in worst : AreaRank(ins.weakest_area) <= AreaRank(b)

\* writing and handwritten are both at 70.0 and the other two at 0.0: the
\* strongest and the weakest area are both Writing
C11_Witness ==
    /\ DashOk
    /\ view.writing_score = 700
    /\ view.handwritten_score = 700
    /\ view.speaking_score = 0
    /\ view.quiz_score = 0
    /\ view.insights.strongest_area = "Writing"
    /\ view.insights.weakest_area = "Writing"

\* C12: with the target 5, percentage is floor(current * 100 / target)
\* capped at 100 and remaining is target - current floored at 0; so
\* percentage is in 0..100, remaining in 0..target, and a current at or
\* above the target gives 100 and 0.
C12_WeeklyGoal ==
    DashOk =>
        LET current == view.weekly_goal_current
            target == view.weekly_goal_target
            percentage == view.weekly_goal_percentage
            remaining == view.weekly_goal_remaining
        IN  /\ target = 5
            /\ IF current >= target THEN percentage = 100
               ELSE /\ percentage * target <= current * 100
                    /\ current * 100 < (percentage + 1) * target
            /\ IF current >= target THEN remaining = 0
               ELSE remaining = target - current
            /\ percentage \in 0..100
            /\ remaining \in 0..target

\* seven submissions in the week: 100 percent, none remaining
C12_Witness ==
    /\ DashOk
    /\ view.weekly_goal_current = 7
    /\ view.weekly_goal_percentage = 100
    /\ view.weekly_goal_remaining = 0

\* C13: the weekly count is the number of the learner's submissions dated
\* on or after the Monday of the week of today (the one Monday among today
\* and the six days before it), so on a Monday from today on.
C13_WeekStart ==
    DashOk =>
        LET t == view.week_today
            monday == CHOOSE m \in (t - 6)..t : m % 7 = 1
        IN  /\ view.weekly_goal_current =
                   Cardinality({i \in MineIdx :
                                   submissions[i].created_at >= monday})
            /\ (t % 7 = 1) => monday = t

\* on a Tuesday, with a submission of the Sunday and one of the Monday: the
\* Monday's is counted, the Sunday's is not
C13_Witness ==
    /\ DashOk
    /\ view.week_today % 7 = 2
    /\ \E i \in MineIdx : submissions[i].created_at = view.week_today - 1
    /\ \E i \in MineIdx : submissions[i].created_at = view.week_today - 2
    /\ view.weekly_goal_current =
           Cardinality({i \in MineIdx :
                           submissions[i].created_at >= view.week_today - 1})
    /\ view.weekly_goal_current < Cardinality(MineIdx)

\* the average the dashboard shows for an area
AverageOf(a) ==
    CASE a = "speaking" -> view.speaking_score
      [] a = "writing" -> view.writing_score
      [] a = "quiz" -> view.quiz_score
      [] a = "handwritten" -> view.handwritten_score

\* num/den (not negative) rounded to one decimal, a tie going away from
\* zero; in tenths
RoundHalfAway(num, den) == (20 * num + den) \div (2 * den)

\* C14: the average of every area with qualifying events is the exact mean
\* of their values rounded once to one decimal place, a tie going away from
\* zero (an exact mean of 72.25 gives 72.3).
C14_RoundHalfAway ==
    DashOk =>
        \A a \in Areas :
            LET events == EventIdx(a)
                values2 == [i \in events |-> EventValue2(a, i)]
            IN  events # {} =>
                    AverageOf(a) =
                        RoundHalfAway(SumFn(values2, events),
                                      2 * Cardinality(events))

\* C15: the average of an area without a qualifying event is exactly 0.0,
\* be it that the learner has no records, only records of other kinds, only
\* ungraded ones, or for speaking only graded ones that lack a sub-score.
C15_EmptyAverage ==
    DashOk => \A a \in Areas : EventIdx(a) = {} => AverageOf(a) = 0

\* a graded speaking record that lacks a sub-score and an ungraded writing
\* record: all four averages are 0.0
C15_Witness ==
    /\ DashOk
    /\ \E i \in OfKind("SPEAKING") \cap GradedIdx :
           submissions[i].grade.fluency_score = NoneVal
    /\ \E i \in OfKind("WRITING") : ~submissions[i].grade.present
    /\ \A a \in Areas : EventIdx(a) = {} /\ AverageOf(a) = 0

(***************************************************************************)
(* The instructor's dashboard, stated from the rows of all students.       *)
(***************************************************************************)
InstructorOk == view.kind = "instructor" /\ view.status = "ok"

AllIdx == 1..Len(submissions)

\* the rows dated day d
DatedIdx(d) == {k \in AllIdx : submissions[k].created_at = d}

\* C16: the sparkline is four arrays of length 7, the i-th entry (from 1)
\* standing for the day today-7+i, so the oldest day first and today last:
\* the number of records of that day, the number of those that are
\* ungraded, the mean score of those that are graded rounded to one decimal
\* (0.0 if none is), and the number of distinct owners among them.  Records
\* dated outside the window have no part in any entry.
C16_Sparkline ==
    InstructorOk =>
        LET spark == view.sparkline_data
        IN  /\ Len(spark.submissions) = 7
            /\ Len(spark.pending) = 7
            /\ Len(spark.class_avg) = 7
            /\ Len(spark.active_students) = 7
            /\ \A i \in 1..7 :
                   LET rows == DatedIdx(view.today - 7 + i)
                       graded == {k \in rows : submissions[k].grade.present}
                       scores == [k \in graded |-> submissions[k].grade.score]
                   IN  /\ spark.submissions[i] = Cardinality(rows)
                       /\ spark.pending[i] = Cardinality(rows \ graded)
                       /\ IF graded = {} THEN spark.class_avg[i] = 0
                          ELSE NearestTenth(spark.class_avg[i],
                                            SumFn(scores, graded),
                                            Cardinality(graded))
                       /\ spark.active_students[i] =
                              Cardinality({submissions[k].student_id :
                                              k \in rows})

\* a record of seven days ago, outside the window, and a graded record of
\* six days ago, which the first entries show alone
C16_Witness ==
    /\ InstructorOk
    /\ DatedIdx(view.today - 7) # {}
    /\ \E k \in DatedIdx(view.today - 6) : submissions[k].grade.score = 70
    /\ view.sparkline_data.submissions = <<1, 0, 0, 0, 0, 0, 0>>
    /\ view.sparkline_data.class_avg = <<700, 0, 0, 0, 0, 0, 0>>
    /\ view.sparkline_data.active_students = <<1, 0, 0, 0, 0, 0, 0>>

\* C17: in the class summary the number of active students is the number
\* of distinct owners over all records, graded or not and of any date, and
\* the number of pending records is the number of all records minus the
\* number of graded ones, hence never negative.
C17_ClassSummary ==
    InstructorOk =>
        LET graded == {k \in AllIdx : submissions[k].grade.present}
        IN  /\ view.active_count =
                   Cardinality({submissions[k].student_id : k \in AllIdx})
            /\ view.pending_count + Cardinality(graded) = Len(submissions)
            /\ view.pending_count >= 0

\* two students, one with a graded and one with an ungraded record
C17_Witness ==
    /\ InstructorOk
    /\ Len(submissions) = 2
    /\ submissions[1].student_id # submissions[2].student_id
    /\ \E k \in AllIdx : ~submissions[k].grade.present
    /\ view.active_count = 2
    /\ view.pending_count = 1

\* C18: a step that computes the student dashboard or the instructor
\* dashboard leaves the stored submissions with their grades, the quiz
\* attempts and the goals as they were, whatever the records contain (also
\* when the computation raises).
C18_NoMutation ==
    [][view'.kind \in {"dashboard", "instructor"} =>
           UNCHANGED <<submissions, quizzes, goals>>]_vars

\* the student dashboard has answered with a submission, a quiz attempt
\* and a goal of the learner in the store
C18_Witness ==
    /\ view.kind = "dashboard"
    /\ MineIdx # {}
    /\ MyQuizIdx # {}
    /\ \E i \in 1..Len(goals) : goals[i].user_id = view.user

\* C19: the streak and the weekly count of one dashboard answer are those
\* of the record set at one single today, also when midnight passes while
\* the dashboard is computed.
C19_SingleToday ==
    DashOk =>
        \E t \in Days :
            LET monday == CHOOSE m \in (t - 6)..t : m % 7 = 1
            IN  /\ RunOf(view.current_streak, t)
                /\ ~RunOf(view.current_streak + 1, t)
                /\ view.weekly_goal_current =
                       Cardinality({i \in MineIdx :
                                       submissions[i].created_at >= monday})

\* C20: the speaking records that enter the speaking average are the very
\* records that enter the speaking series of the chart; no record, such as
\* one with a sub-score of 0, is in the one and not in the other.
C20_SameSpeakingSet ==
    DashOk =>
        LET mine == SubmissionsOf(submissions, view.user)
        IN  SpeakingScored(mine) = SpeakingEvents(mine)

(***************************************************************************)
(* The streak over time: what the dashboard of learner u answers when it   *)
(* is asked in the current state.                                          *)
(***************************************************************************)
StreakNow(u) == current_streak(SubmissionsOf(submissions, u), today)

\* the days on which learner u has a submission
DatesOf(u) ==
    {submissions[i].created_at :
        i \in {j \in 1..Len(submissions) : submissions[j].student_id = u}}

\* the number of days in the unbroken run of days of dates that ends with t
RECURSIVE RunLength(_, _)
RunLength(dates, t) ==
    IF t \in dates THEN 1 + RunLength(dates, t - 1) ELSE 0

\* learner u submits a record today: one row of u, dated today, is added
SubmitsToday(u) ==
    /\ today' = today
    /\ Len(submissions') = Len(submissions) + 1
    /\ SubSeq(submissions', 1, Len(submissions)) = submissions
    /\ submissions'[Len(submissions')].student_id = u
    /\ submissions'[Len(submissions')].created_at = today

\* the day advances and the rows stay
DayAdvances == today' > today /\ submissions' = submissions

\* C21: over the steps that submit a record today and the steps that advance
\* the day: after the day advances the streak is 0, and it is 0 as long as
\* no record is dated today; the first submission of a day makes it one more
\* than the streak that ended the day before; a further submission of the
\* same day leaves it as it is.
C21_StreakOverTime ==
    [][\A u \in Students :
           LET submits == SubmitsToday(u)
               before == DatesOf(u)
           IN  (DayAdvances \/ submits) =>
                   LET after == StreakNow(u)'
                   IN  /\ DayAdvances => after = 0
                       /\ today' \notin DatesOf(u)' => after = 0
                       /\ (submits /\ today \notin before) =>
                              after = 1 + RunLength(before, today - 1)
                       /\ (submits /\ today \in before) =>
                              after = StreakNow(u)]_vars

\* the first submission of a day that follows a day with a submission has
\* just been stored: the streak is 2
C21_Witness ==
    /\ view.kind = "submit"
    /\ Len(submissions) = 2
    /\ submissions[1].created_at = today - 1
    /\ submissions[2].created_at = today
    /\ StreakNow(view.user) = 2

\* C22: on each of the 7 days of the sparkline pending is between 0 and
\* submissions, active_students is at most submissions and is 0 exactly
\* when submissions is 0; over the window the submissions sum to at most
\* the number of all records, pending sums to at most the pending count of
\* the summary, and no day has more active students than the summary.
C22_SparklineBounds ==
    InstructorOk =>
        LET spark == view.sparkline_data
        IN  /\ \A i \in 1..7 :
                   /\ 0 <= spark.pending[i]
                   /\ spark.pending[i] <= spark.submissions[i]
                   /\ spark.active_students[i] <= spark.submissions[i]
                   /\ spark.active_students[i] = 0
                          <=> spark.submissions[i] = 0
                   /\ spark.active_students[i] <= view.active_count
            /\ Sum(spark.submissions) <= Len(submissions)
            /\ Sum(spark.pending) <= view.pending_count

\* today one student has two records, one of them ungraded
C22_Witness ==
    /\ InstructorOk
    /\ view.sparkline_data.submissions[7] = 2
    /\ view.sparkline_data.pending[7] = 1
    /\ view.sparkline_data.active_students[7] = 1
    /\ view.pending_count = 1

\* a stored number that is absent or lies in [0, 100]
ScoreInRange(x) == x = NoneVal \/ (0 <= x /\ x <= 100)

AllScoresInRange ==
    /\ \A i \in 1..Len(submissions) :
           /\ ScoreInRange(submissions[i].grade.score)
           /\ ScoreInRange(submissions[i].grade.pronunciation_score)
           /\ ScoreInRange(submissions[i].grade.fluency_score)
    /\ \A i \in 1..Len(quizzes) : ScoreInRange(quizzes[i].score)

\* a one-decimal value, in tenths, that lies in [0, 100]
InRange(v) == 0 <= v /\ v <= 1000

\* C23: when every stored score and sub-score lies in [0, 100], so does
\* every derived value: the four area averages, the overall average and the
\* class average, every value of the chart series, every class_avg entry
\* of the sparkline, and the strongest and the weakest score, the strongest
\* being at least the weakest.
C23_Ranges ==
    AllScoresInRange =>
        /\ DashOk =>
               LET chart == view.chart_data
                   ins == view.insights
               IN  /\ \A a \in Areas : InRange(AverageOf(a))
                   /\ InRange(view.average_score)
                   /\ \A a \in Areas :
                          \A i \in 1..Len(SeriesOf(chart, a)) :
                              InRange(SeriesOf(chart, a)[i])
                   /\ InRange(ins.strongest_score)
                   /\ InRange(ins.weakest_score)
                   /\ ins.strongest_score >= ins.weakest_score
        /\ InstructorOk =>
               /\ InRange(view.class_avg)
               /\ \A i \in 1..7 : InRange(view.sparkline_data.class_avg[i])

\* speaking at 70.0 from the sub-scores 80 and 60 and a quiz at 80.0: the
\* chart shows both values, the strongest score is 80.0, the weakest 70.0
C23_Witness ==
    /\ DashOk
    /\ view.speaking_score = 700
    /\ view.quiz_score = 800
    /\ \E i \in 1..Len(view.chart_data.dates) :
           view.chart_data.speaking_scores[i] = 700
    /\ \E i \in 1..Len(view.chart_data.dates) :
           view.chart_data.quiz_scores[i] = 800
    /\ view.insights.strongest_score = 800
    /\ view.insights.weakest_score = 700

====
